---- MODULE Spec2Model ----
(***************************************************************************)
(* Model of the two Streamlit scripts movie_plot_app.py (Movie Plot       *)
(* Finder) and movie_reviews_app.py (Movie Review Generator).              *)
(*                                                                         *)
(* Strings are sequences of one-character strings, so that strip, lower,   *)
(* split, len and the two regular expressions are computed, not assumed.   *)
(* Python's None is the record None; a value v is Some(v).                 *)
(***************************************************************************)
EXTENDS Integers, Sequences, FiniteSets, TLC

VARIABLES
    app,          \* which script the session runs: "plot", "reviews" ("none": a function alone)
    req,          \* the widget values and the button of the last script run
    svc,          \* what the encyclopedia and the model library answer during that run
    out,          \* what that run put on the screen
    searchCache,  \* st.cache_data of search_wikipedia, by argument
    pageCache,    \* st.cache_data of get_wikipedia_page_via_api: the titles held
    arg,          \* the argument of a function applied alone
    res           \* and its result

vars == <<app, req, svc, out, searchCache, pageCache, arg, res>>

\* The session state while a function is applied alone, and the function
\* state while a session runs.
NoSession ==
    /\ app = "none"
    /\ req = <<>>
    /\ svc = <<>>
    /\ out = <<>>
    /\ searchCache = <<>>
    /\ pageCache = {}

SessionUnchanged == UNCHANGED <<app, req, svc, out, searchCache, pageCache>>

(***************************************************************************)
(* Python values                                                           *)
(***************************************************************************)
None == [isNone |-> TRUE, val |-> <<>>]

Some(v) == [isNone |-> FALSE, val |-> v]

\* Python truthiness of an optional string: None and "" are both falsy.
Truthy(o) == ~o.isNone /\ o.val # <<>>

\* A pure function that has not been applied yet / its returned value.
NotRun == [done |-> FALSE, val |-> None]

Returned(v) == [done |-> TRUE, val |-> v]

(***************************************************************************)
(* Strings                                                                 *)
(***************************************************************************)
Rep(c, n) == [i \in 1..n |-> c]

WhiteSpace == {" ", "\n", "\t"}

UpperChars == <<"A", "B", "C", "D", "E", "F", "G", "H", "I", "J", "K", "L", "M",
                "N", "O", "P", "Q", "R", "S", "T", "U", "V", "W", "X", "Y", "Z">>

LowerChars == <<"a", "b", "c", "d", "e", "f", "g", "h", "i", "j", "k", "l", "m",
                "n", "o", "p", "q", "r", "s", "t", "u", "v", "w", "x", "y", "z">>

Digits == {"0", "1", "2", "3", "4", "5", "6", "7", "8", "9"}

UpperSet == {UpperChars[i] : i \in 1..26}

LowerOf == [c \in UpperSet |-> LowerChars[CHOOSE i \in 1..26 : UpperChars[i] = c]]

LowerChar(c) == IF c \in UpperSet THEN LowerOf[c] ELSE c

\* str.lower()
Lower(s) == [i \in 1..Len(s) |-> LowerChar(s[i])]

\* str.strip(): drop the leading and the trailing run of whitespace.
Strip(s) ==
    LET n  == Len(s)
        \* the number of leading, and of trailing, whitespace characters
        lead  == CHOOSE k \in 0..n :
                    /\ \A j \in 1..k : s[j] \in WhiteSpace
                    /\ (k = n \/ s[k + 1] \notin WhiteSpace)
        trail == CHOOSE k \in 0..n :
                    /\ \A j \in (n - k + 1)..n : s[j] \in WhiteSpace
                    /\ (k = n \/ s[n - k] \notin WhiteSpace)
    IN  IF lead = n THEN <<>> ELSE SubSeq(s, lead + 1, n - trail)

\* sub in s
Contains(s, sub) ==
    \E i \in 1..(Len(s) - Len(sub) + 1) : SubSeq(s, i, i + Len(sub) - 1) = sub

\* re.search(r"\(\d{4}\)", s)
HasYearInParens(s) ==
    \E i \in 1..(Len(s) - 5) :
        /\ s[i] = "("
        /\ \A k \in 1..4 : s[i + k] \in Digits
        /\ s[i + 5] = ")"

RECURSIVE SplitBlankLines(_)
\* str.split("\n\n"): non-overlapping separators, left to right.
SplitBlankLines(s) ==
    LET at == {i \in 1..(Len(s) - 1) : s[i] = "\n" /\ s[i + 1] = "\n"}
    IN  IF at = {} THEN <<s>>
        ELSE LET i == CHOOSE k \in at : \A j \in at : k <= j
             IN  <<SubSeq(s, 1, i - 1)>> \o SplitBlankLines(SubSeq(s, i + 2, Len(s)))

\* str.replace(' ', '_')
ReplaceSpaces(s) == [i \in 1..Len(s) |-> IF s[i] = " " THEN "_" ELSE s[i]]

(***************************************************************************)
(* movie_plot_app.py: clean_query                                          *)
(***************************************************************************)
TrailingPunct == {".", ",", ";", ":", "!", "?"}

\* re.sub(r"[.,;:!?]+$", "", q): the maximal run of punctuation that ends
\* the string is removed (q was stripped, so it has no final newline for $
\* to match in front of).
SubTrailingPunct(q) ==
    LET n == Len(q)
        run == CHOOSE k \in 0..n :
                  /\ \A j \in (n - k + 1)..n : q[j] \in TrailingPunct
                  /\ (k = n \/ q[n - k] \notin TrailingPunct)
    IN  SubSeq(q, 1, n - run)

clean_query(q) ==
    IF q = <<>> THEN <<>>
    ELSE SubTrailingPunct(Strip(q))

(***************************************************************************)
(* Specification of clean_query alone: every typed string up to           *)
(* MaxQueryLen characters is cleaned, and a cleaned string may be typed   *)
(* again.                                                                  *)
(***************************************************************************)
MaxQueryLen == 4

QueryChars == {"a", " ", "\n", ".", "!"}

RECURSIVE StringsUpTo(_, _)
StringsUpTo(chars, n) ==
    IF n = 0 THEN {<<>>}
    ELSE LET shorter == StringsUpTo(chars, n - 1)
         IN  shorter \cup {Append(s, c) : s \in shorter, c \in chars}

InitClean ==
    /\ NoSession
    /\ arg \in StringsUpTo(QueryChars, MaxQueryLen)
    /\ res = NotRun

CleanQueryCall ==
    /\ ~res.done
    /\ res' = Returned(Some(clean_query(arg)))
    /\ UNCHANGED arg
    /\ SessionUnchanged

\* The user types the cleaned text back into the input box.
Retype ==
    /\ res.done
    /\ arg' = res.val.val
    /\ res' = NotRun
    /\ SessionUnchanged

NextClean == CleanQueryCall \/ Retype

SpecClean == InitClean /\ [][NextClean]_vars

(***************************************************************************)
(* movie_plot_app.py: plot-section extraction                              *)
(*                                                                         *)
(* A section is [title, text, sections]; a page returned by the API client *)
(* is [exists, title, text, sections, fullurl] and is searched as the root *)
(* section, exactly as the code passes it to get_section_text_by_title.    *)
(***************************************************************************)
Section(title, text, subs) == [title |-> title, text |-> text, sections |-> subs]

Page(title, text, subs, url) ==
    [exists |-> TRUE, title |-> title, text |-> text, sections |-> subs,
     fullurl |-> url]

MissingPage(title) ==
    [exists |-> FALSE, title |-> title, text |-> <<>>, sections |-> <<>>,
     fullurl |-> <<>>]

RECURSIVE get_section_text_by_title(_, _)
RECURSIVE SearchSubsections(_, _)
\* "if res: return res" -- a falsy result lets the loop go on.
ResultOrNext(r, rest, title) ==
    IF Truthy(r) THEN r ELSE SearchSubsections(rest, title)

\* The loop "for s in section.sections", then "return None".
SearchSubsections(subs, title) ==
    IF subs = <<>> THEN None
    ELSE ResultOrNext(get_section_text_by_title(Head(subs), title), Tail(subs), title)

get_section_text_by_title(section, title) ==
    IF Lower(Strip(section.title)) = Lower(Strip(title))
    THEN Some(section.text)
    ELSE SearchSubsections(section.sections, title)

\* The candidate headings with "Synopsis" tried before "Plot": a variant
\* that the ordering property of the extraction must tell apart.
CandidatesSynopsisFirst ==
    << <<"S", "y", "n", "o", "p", "s", "i", "s">>,
       <<"P", "l", "o", "t">>,
       <<"P", "l", "o", "t", " ", "s", "u", "m", "m", "a", "r", "y">>,
       <<"S", "y", "n", "o", "p", "s", "i", "s", " ", "a", "n", "d", " ", "p", "l", "o", "t">>,
       <<"P", "l", "o", "t", " ", "a", "n", "d", " ", "s", "y", "n", "o", "p", "s", "i", "s">> >>

Candidates ==
    << <<"P", "l", "o", "t">>,
       <<"P", "l", "o", "t", " ", "s", "u", "m", "m", "a", "r", "y">>,
       <<"S", "y", "n", "o", "p", "s", "i", "s">>,
       <<"S", "y", "n", "o", "p", "s", "i", "s", " ", "a", "n", "d", " ", "p", "l", "o", "t">>,
       <<"P", "l", "o", "t", " ", "a", "n", "d", " ", "s", "y", "n", "o", "p", "s", "i", "s">> >>

\* "len(t.strip()) > 80"
MinSectionLen == 80

\* "if t and len(t.strip()) > 80"
SectionQualifies(t) == Truthy(t) /\ Len(Strip(t.val)) > MinSectionLen

\* [p.strip() for p in ... if p.strip()]
StripNonBlank(blocks) ==
    SelectSeq([i \in 1..Len(blocks) |-> Strip(blocks[i])], LAMBDA p : p # <<>>)

\* [p.strip() for p in txt.split("\n\n") if p.strip()]
Paragraphs(txt) == StripNonBlank(SplitBlankLines(txt))

\* "return paragraphs[0].strip() if paragraphs else None"
FirstParagraph(paragraphs) ==
    IF paragraphs # <<>> THEN Some(Strip(paragraphs[1])) ELSE None

RECURSIVE TryCandidates(_, _)
\* The body of the loop for the text t found for candidate i.
UseSection(t, page, i) ==
    IF SectionQualifies(t) THEN Some(Strip(t.val)) ELSE TryCandidates(page, i + 1)

\* The loop over the candidate headings from position i on, then the
\* fallback to the first paragraph of the page text.
TryCandidates(page, i) ==
    IF i > Len(Candidates)
    THEN FirstParagraph(Paragraphs(page.text))
    ELSE UseSection(get_section_text_by_title(page, Candidates[i]), page, i)

extract_plot_from_api_page(page) ==
    IF ~page.exists THEN None
    ELSE TryCandidates(page, 1)

(***************************************************************************)
(* Specification of the extraction alone: it is applied to every page     *)
(* built from at most MaxSections top-level sections of SectionPool.       *)
(***************************************************************************)
MaxSections == 2

TitleUp == <<"U", "p">>

TitlePlot == <<"P", "l", "o", "t">>

UrlOfApi == <<"h", "t", "t", "p", ":", "/", "/", "a", "/">>

\* 81 characters: just long enough.
LongP == Rep("p", MinSectionLen + 1)

\* 82 characters, 80 after stripping: just too short.
EdgeE == <<" ">> \o Rep("e", MinSectionLen) \o <<"\n">>

\* 83 characters, 81 after stripping.
PaddedS == <<" ">> \o Rep("s", MinSectionLen + 1) \o <<" ">>

LongU == Rep("u", MinSectionLen + 1)

LongN == Rep("n", MinSectionLen + 1)

LongZ == Rep("z", MinSectionLen + 1)

LongC == Rep("c", MinSectionLen + 1)

SectionPool ==
    { Section(Candidates[1], LongP, <<>>),
      Section(Candidates[1], EdgeE, <<>>),
      Section(Candidates[1], <<>>, <<>>),
      Section(<<"P", "L", "O", "T", " ", "S", "U", "M", "M", "A", "R", "Y", " ">>, LongU, <<>>),
      Section(Candidates[3], PaddedS, <<>>),
      Section(<<"C", "a", "s", "t">>, <<>>, <<Section(Candidates[3], LongN, <<>>)>>),
      Section(Candidates[5], LongZ, <<>>),
      Section(<<"C", "a", "s", "t">>, LongC, <<>>) }

\* Page texts: empty; short paragraphs after a blank block; a long first
\* paragraph followed by a second one.
ShortParas == <<"\n", "\n", " ", "\n", "\n", "a", "b", " ", "\n", "\n", "c", "d">>

LongParas == Rep("x", MinSectionLen + 1) \o <<"\n", "\n", "y", "y">>

PageTexts == {<<>>, ShortParas, LongParas}

RECURSIVE SeqsUpTo(_, _)
SeqsUpTo(S, n) ==
    IF n = 0 THEN {<<>>}
    ELSE LET shorter == SeqsUpTo(S, n - 1)
         IN  shorter \cup {Append(s, x) : s \in shorter, x \in S}

ExtractPages ==
    {MissingPage(TitleUp)} \cup
    {Page(t, x, subs, UrlOfApi) :
        t \in {TitleUp, TitlePlot}, x \in PageTexts,
        subs \in SeqsUpTo(SectionPool, MaxSections)}

InitExtract ==
    /\ NoSession
    /\ arg \in ExtractPages
    /\ res = NotRun

ExtractCall ==
    /\ ~res.done
    /\ res' = Returned(extract_plot_from_api_page(arg))
    /\ UNCHANGED arg
    /\ SessionUnchanged

\* The page is edited on the encyclopedia: a top-level section is removed.
DropSection ==
    /\ arg.exists
    /\ arg.sections # <<>>
    /\ arg' = [arg EXCEPT !.sections = Tail(arg.sections)]
    /\ res' = NotRun
    /\ SessionUnchanged

NextExtract == ExtractCall \/ DropSection

SpecExtract == InitExtract /\ [][NextExtract]_vars

(***************************************************************************)
(* movie_plot_app.py: the default match among the search hits              *)
(***************************************************************************)
FilmWord == <<"f", "i", "l", "m">>

\* "film" in h.lower() or re.search(r"\(\d{4}\)", h)
LooksLikeFilm(h) == Contains(Lower(h), FilmWord) \/ HasYearInParens(h)

\* The least element of a non-empty set of positions.
First(S) == CHOOSE i \in S : \A j \in S : i <= j

\* The exact match without ".lower()": a variant that the default-match
\* property must tell apart.
ExactHitCaseSensitive(hits, q) ==
    LET at == {i \in 1..Len(hits) : hits[i] = q}
    IN  IF at = {} THEN None ELSE Some(hits[First(at)])

\* next((h for h in hits if h.lower() == q.lower()), None)
ExactHit(hits, q) ==
    LET at == {i \in 1..Len(hits) : Lower(hits[i]) = Lower(q)}
    IN  IF at = {} THEN None ELSE Some(hits[First(at)])

\* The loop of lines 134-138: the first hit that looks like a film, else 0
\* (here 1: positions are counted from 1).
FirstFilmIndex(film) == IF film = {} THEN 1 ELSE First(film)

\* "if exact: default_index = hits.index(exact) else: ..."
IndexGivenExact(hits, exact) ==
    IF Truthy(exact)
    THEN First({i \in 1..Len(hits) : hits[i] = exact.val})
    ELSE FirstFilmIndex({i \in 1..Len(hits) : LooksLikeFilm(hits[i])})

\* default_index, counted from 1.
DefaultIndex(hits, q) == IndexGivenExact(hits, ExactHit(hits, q))

\* st.selectbox(options, index) in the run that first renders it: a run
\* triggered by 'Get Plot' always renders it anew, because the run that a
\* change of the selection triggers has 'Get Plot' false, renders no
\* selectbox and so drops its state.
Selectbox(options, index) ==
    IF options = <<>> THEN None ELSE Some(options[index])

\* chosen_title: the title handed to try_summary_or_fallback.
ChosenTitle(hits, q, show_matches) ==
    IF show_matches /\ Len(hits) > 1
    THEN Selectbox(hits, DefaultIndex(hits, q)).val
    ELSE hits[DefaultIndex(hits, q)]

(***************************************************************************)
(* Specification of the match selection alone: every non-empty hit list   *)
(* of at most MaxHits titles is matched against a cleaned query.          *)
(***************************************************************************)
MaxHits == 3

TitleUpFilm == <<"U", "p", " ", "(", "2", "0", "0", "9", " ", "f", "i", "l", "m", ")">>

TitleUpYear == <<"U", "p", " ", "(", "2", "0", "0", "9", ")">>

TitleUpside == <<"U", "p", "s", "i", "d", "e">>

MatchTitles ==
    { TitleUp, <<"U", "P">>, TitleUpFilm, TitleUpYear, TitleUpside,
      <<"U", "p", " ", "(", "2", "0", "9", ")">>,
      <<"T", "h", "e", " ", "F", "i", "l", "m", " ", "U", "p">> }

MatchQueries == {TitleUp, <<"u", "p">>, <<"I", "t">>}

InitMatch ==
    /\ NoSession
    /\ arg \in [q : MatchQueries,
                hits : SeqsUpTo(MatchTitles, MaxHits) \ {<<>>},
                show_matches : BOOLEAN]
    /\ res = NotRun

MatchCall ==
    /\ ~res.done
    /\ res' = Returned(Some(ChosenTitle(arg.hits, arg.q, arg.show_matches)))
    /\ UNCHANGED arg
    /\ SessionUnchanged

\* The sidebar checkbox "Show top Wikipedia matches" is toggled.
ToggleShowMatches ==
    /\ arg' = [arg EXCEPT !.show_matches = ~arg.show_matches]
    /\ res' = NotRun
    /\ SessionUnchanged

NextMatch == MatchCall \/ ToggleShowMatches

SpecMatch == InitMatch /\ [][NextMatch]_vars

(***************************************************************************)
(* The encyclopedia service, as one script run sees it                     *)
(*                                                                         *)
(* svc holds the answer to each lookup of the run: the search, the fetch   *)
(* of the API page, the summary and the page object of the wikipedia       *)
(* library.                                                                *)
(***************************************************************************)
\* "len(plot_text) > 120"
MinPlotLen == 120

PlotLong == Rep("p", MinPlotLen + 1)

\* The API page of a title, by what the service holds for it.
PageOf(kind, title) ==
    CASE kind = "long"  -> Page(title, PlotLong, <<Section(Candidates[1], PlotLong, <<>>)>>, UrlOfApi)
      [] kind = "short" -> Page(title, LongP, <<Section(Candidates[1], LongP, <<>>)>>, UrlOfApi)
      [] OTHER          -> MissingPage(title)

PageKinds == {"raise", "missing", "long", "short"}

\* A fetch of the API page: the handle comes from
\* get_wikipedia_page_via_api, the content is fetched when exists() or text
\* is first read, and that read may raise.  The service gives every fetch
\* of one run the same answer.
FetchPage(env, title) ==
    [raises |-> env.page = "raise", page |-> PageOf(env.page, title)]

ArticleSentences == << <<"A", "b", ".">>, <<"C", "d", ".">> >>

RECURSIVE JoinSentences(_, _)
JoinSentences(sents, n) ==
    IF n = 0 \/ sents = <<>> THEN <<>>
    ELSE IF n = 1 \/ Len(sents) = 1 THEN Head(sents)
    ELSE Head(sents) \o <<" ">> \o JoinSentences(Tail(sents), n - 1)

SummaryKinds == {"error", "ambiguous", "empty", "text"}

DisambiguationOptions == <<TitleUpFilm, TitleUpYear>>

\* wikipedia.summary(title, sentences=n): the first n sentences of the lead.
SummaryOf(env, n) ==
    IF env.summary = "text" THEN JoinSentences(ArticleSentences, n) ELSE <<>>

UrlOfPage == <<"h", "t", "t", "p", ":", "/", "/", "w", "/">>

(***************************************************************************)
(* movie_plot_app.py: search_wikipedia and its cache                       *)
(***************************************************************************)
NotCached == [cached |-> FALSE, hits |-> <<>>, err |-> FALSE]

Cached(hits, err) == [cached |-> TRUE, hits |-> hits, err |-> err]

\* A cached call returns the stored value and replays the st.error the
\* stored call showed; the body runs, and its return value is stored, only
\* for an argument not yet in the cache.
search_wikipedia(q, cache, env) ==
    IF cache[q].cached
    THEN [hits |-> cache[q].hits, err |-> cache[q].err, cache |-> cache]
    ELSE IF env.search.raises
    THEN [hits |-> <<>>, err |-> TRUE,
          cache |-> [cache EXCEPT ![q] = Cached(<<>>, TRUE)]]
    ELSE [hits |-> env.search.hits, err |-> FALSE,
          cache |-> [cache EXCEPT ![q] = Cached(env.search.hits, FALSE)]]

(***************************************************************************)
(* movie_plot_app.py: try_summary_or_fallback                              *)
(*                                                                         *)
(* The result is (text, url) with raised = "none", or the exception that   *)
(* leaves the function; fetched tells whether the API page was asked for.  *)
(***************************************************************************)
Return(text, url, fetched) ==
    [raised |-> "none", options |-> <<>>, text |-> text, url |-> url,
     fetched |-> fetched]

RaiseDisambiguation(options, fetched) ==
    [raised |-> "DisambiguationError", options |-> options, text |-> None, url |-> None,
     fetched |-> fetched]

\* Lines 98-104 without the inner "try": the exception of the fetch leaves
\* the function.  A variant that the no-escape property must tell apart.
LastResortWithoutTry(r) ==
    IF r.raises
    THEN [raised |-> "Exception", options |-> <<>>, text |-> None, url |-> None,
          fetched |-> TRUE]
    ELSE IF r.page.exists
    THEN Return(extract_plot_from_api_page(r.page), Some(r.page.fullurl), TRUE)
    ELSE Return(None, None, TRUE)

\* Lines 98-104, for the answer r of the fetch.
LastResortWith(r) ==
    IF r.raises THEN Return(None, None, TRUE)
    ELSE IF r.page.exists
    THEN Return(extract_plot_from_api_page(r.page), Some(r.page.fullurl), TRUE)
    ELSE Return(None, None, TRUE)

\* "except Exception:" -- the last resort.
LastResort(title, env) == LastResortWith(FetchPage(env, title))

\* Lines 88-91: wikipedia.page raised, the url comes from the API page r;
\* a fetch that raises here is caught by the outer "except Exception".
UrlFromApiPage(s, r, title, env) ==
    IF r.raises THEN LastResort(title, env)
    ELSE Return(Some(s), IF r.page.exists THEN Some(r.page.fullurl) ELSE None, TRUE)

\* Lines 83-94: wikipedia.summary, then wikipedia.page for the url; fetched
\* tells whether the API page was asked for before.
SummaryStep(title, sentences, env, fetched) ==
    CASE env.summary = "ambiguous" ->
            RaiseDisambiguation(DisambiguationOptions, fetched)
      [] env.summary = "error" -> LastResort(title, env)
      [] OTHER ->
            IF ~env.wpageRaises
            THEN Return(Some(SummaryOf(env, sentences)), Some(UrlOfPage), fetched)
            ELSE UrlFromApiPage(SummaryOf(env, sentences), FetchPage(env, title),
                                title, env)

\* "if plot_text and len(plot_text) > 120: return plot_text, api_page.fullurl"
PlotOrSummary(plot_text, url, title, sentences, env) ==
    IF Truthy(plot_text) /\ Len(plot_text.val) > MinPlotLen
    THEN Return(plot_text, Some(url), TRUE)
    ELSE SummaryStep(title, sentences, env, TRUE)

\* Lines 76-81, for the answer r of the fetch.
StructuredPlot(r, title, sentences, env) ==
    IF r.raises THEN LastResort(title, env)
    ELSE IF r.page.exists
    THEN PlotOrSummary(extract_plot_from_api_page(r.page), r.page.fullurl,
                       title, sentences, env)
    ELSE SummaryStep(title, sentences, env, TRUE)

try_summary_or_fallback(title, sentences, prefer_plot, env) ==
    IF prefer_plot
    THEN StructuredPlot(FetchPage(env, title), title, sentences, env)
    ELSE SummaryStep(title, sentences, env, FALSE)

(***************************************************************************)
(* movie_plot_app.py: the script, run top to bottom on every interaction   *)
(*                                                                         *)
(* A run's screen: the messages in order, the steps of the flow the run    *)
(* went through, and what it displayed.  tsf_raised is the exception that  *)
(* left the first call of try_summary_or_fallback, escaped the exception   *)
(* that left the script.                                                   *)
(***************************************************************************)
PlotBlank ==
    [screen |-> <<>>, steps |-> <<>>, hits |-> <<>>, chosen_title |-> None,
     plot_text |-> None, page_url |-> None, file_name |-> None,
     matchOptions |-> <<>>, disambOptions |-> <<>>, choice |-> None,
     useSelectedShown |-> FALSE, tsf_raised |-> "none", escaped |-> "none"]

PlotFileSuffix == <<"_", "p", "l", "o", "t", ".", "t", "x", "t">>

\* de.options[:30]
MaxOptionsShown == 30

FirstN(seq, n) == SubSeq(seq, 1, IF Len(seq) < n THEN Len(seq) ELSE n)

\* Lines 161-172: the error, or the plot, the link and the download button.
FinishPlot(o, plot_text, page_url, chosen_title) ==
    IF ~Truthy(plot_text)
    THEN [o EXCEPT !.screen = @ \o <<"error: could not fetch a summary/plot">>,
                   !.chosen_title = Some(chosen_title)]
    ELSE [o EXCEPT !.screen = @ \o <<"plot">>
                                \o (IF Truthy(page_url) THEN <<"link">> ELSE <<>>)
                                \o <<"download">>,
                   !.steps = @ \o <<"display", "export">>,
                   !.plot_text = plot_text,
                   !.page_url = page_url,
                   !.chosen_title = Some(chosen_title),
                   !.file_name = Some(ReplaceSpaces(chosen_title) \o PlotFileSuffix)]

\* Lines 152-157: the nested button was clicked; t2 is the second call.
UseSelected(shown, t2) ==
    IF t2.raised # "none"
    THEN [shown EXCEPT !.screen = @ \o <<"error: failed to fetch page">>]
    ELSE FinishPlot([shown EXCEPT !.steps = @ \o <<"extract">>],
                    t2.text, t2.url, shown.choice.val)

\* Lines 151-159, for the screen with the options on it.
Disambiguate(shown, w, useSelected, env) ==
    IF useSelected
    THEN UseSelected(shown, try_summary_or_fallback(shown.choice.val, w.sentences,
                                                    w.prefer_full_plot, env))
    ELSE shown

\* Lines 149-150: the warning and the selectbox of de.options[:30].
ShowOptions(o, options, raised) ==
    [o EXCEPT !.screen = @ \o <<"warning: ambiguous">>,
              !.disambOptions = options,
              !.choice = Selectbox(options, 1),
              !.useSelectedShown = TRUE,
              !.tsf_raised = raised]

\* Lines 146-163: the result t of the first call, the disambiguation
\* branch and the nested button.
AfterSummary(o, t, chosen_title, w, useSelected, env) ==
    IF t.raised = "DisambiguationError"
    THEN Disambiguate(ShowOptions(o, FirstN(t.options, MaxOptionsShown), t.raised),
                      w, useSelected, env)
    ELSE IF t.raised # "none"
    THEN [o EXCEPT !.tsf_raised = t.raised, !.escaped = t.raised]
    ELSE FinishPlot([o EXCEPT !.steps = @ \o <<"extract">>], t.text, t.url, chosen_title)

\* Lines 123-124: the screen after the search.
Searched(sr) ==
    [PlotBlank EXCEPT !.screen = <<"info: searching">>
                                 \o (IF sr.err THEN <<"error: search error">> ELSE <<>>),
                      !.steps = <<"search">>,
                      !.hits = sr.hits]

\* Lines 140-144: the screen after the title was chosen.
Selected(sr, chosen_title, w) ==
    [Searched(sr) EXCEPT !.screen = @ \o <<"success: using page">>,
                         !.steps = @ \o <<"select">>,
                         !.matchOptions = IF w.show_matches /\ Len(sr.hits) > 1
                                          THEN sr.hits ELSE <<>>,
                         !.chosen_title = Some(chosen_title)]

\* Lines 146-172, for the result t of try_summary_or_fallback.
HandleSummary(t, sr, chosen_title, w, useSelected, env) ==
    [out |-> AfterSummary(Selected(sr, chosen_title, w), t, chosen_title, w,
                          useSelected, env),
     cache |-> sr.cache,
     fetched |-> IF t.fetched THEN {chosen_title} ELSE {}]

\* Lines 130-147, for the chosen title.
HandleChosen(sr, chosen_title, w, useSelected, env) ==
    HandleSummary(try_summary_or_fallback(chosen_title, w.sentences,
                                          w.prefer_full_plot, env),
                  sr, chosen_title, w, useSelected, env)

\* Lines 126-128, for the result sr of search_wikipedia.
HandleHits(sr, q, w, useSelected, env) ==
    IF sr.hits = <<>>
    THEN [out |-> [Searched(sr) EXCEPT !.screen = @ \o <<"error: no results">>],
          cache |-> sr.cache, fetched |-> {}]
    ELSE HandleChosen(sr, ChosenTitle(sr.hits, q, w.show_matches), w, useSelected, env)

\* Lines 119-124, for the cleaned query q.
HandleQuery(q, w, useSelected, cache, env) ==
    IF q = <<>>
    THEN [out |-> [PlotBlank EXCEPT !.screen = <<"warning: enter a movie name">>],
          cache |-> cache, fetched |-> {}]
    ELSE HandleHits(search_wikipedia(q, cache, env), q, w, useSelected, env)

\* Lines 117-172, with the value useSelected of the nested button.
GetPlotHandler(w, useSelected, cache, env) ==
    HandleQuery(clean_query(w.query), w, useSelected, cache, env)

\* One run of the script.  clicked is the button whose click triggered the
\* run ("none": a widget changed); only that button reads TRUE in the run.
WithPages(r, pages) ==
    [out |-> r.out, cache |-> r.cache, pages |-> pages \cup r.fetched]

PlotScript(w, clicked, cache, pages, env) ==
    IF clicked = "Clear cache"
    THEN [out |-> PlotBlank, cache |-> [k \in DOMAIN cache |-> NotCached], pages |-> {}]
    ELSE IF clicked = "Get Plot"
    THEN WithPages(GetPlotHandler(w, clicked = "Use selected option", cache, env), pages)
    ELSE [out |-> PlotBlank, cache |-> cache, pages |-> pages]

(***************************************************************************)
(* A session of the plot app                                               *)
(***************************************************************************)
HitsUp == <<TitleUpside, TitleUpFilm, TitleUp>>

SearchResponses ==
    { [raises |-> TRUE, hits |-> <<>>],
      [raises |-> FALSE, hits |-> <<>>],
      [raises |-> FALSE, hits |-> HitsUp] }

PlotEnvs ==
    [search : SearchResponses, page : PageKinds,
     summary : SummaryKinds, wpageRaises : BOOLEAN]

\* A run that makes no lookup.
NoLookups == <<>>

\* The slider "Short summary length (sentences)": its least value and its default.
SentenceValues == {1, 3}

PlotQueries == {<<>>, TitleUp, <<"U", "p", ".">>}

PlotWidgets ==
    [query : PlotQueries, sentences : SentenceValues,
     show_matches : BOOLEAN, prefer_full_plot : BOOLEAN]

PlotCacheKeys == {clean_query(q) : q \in PlotQueries} \ {<<>>}

PlotDefaults ==
    [query |-> <<>>, sentences |-> 3, show_matches |-> TRUE, prefer_full_plot |-> TRUE]

Request(clicked, w, choice) == [button |-> clicked, widgets |-> w, choice |-> choice]

InitPlot ==
    /\ app = "plot"
    /\ req = Request("none", PlotDefaults, None)
    /\ svc = NoLookups
    /\ out = PlotBlank
    /\ searchCache = [k \in PlotCacheKeys |-> NotCached]
    /\ pageCache = {}
    /\ arg = <<>>
    /\ res = NotRun

\* The run that an interaction triggers.
PlotRun(w, clicked, choice, env) ==
    \E r \in {PlotScript(w, clicked, searchCache, pageCache, env)} :
        /\ req' = Request(clicked, w, choice)
        /\ svc' = env
        /\ out' = r.out
        /\ searchCache' = r.cache
        /\ pageCache' = r.pages
        /\ UNCHANGED <<app, arg, res>>

\* The user edits the text input or a sidebar option.
ChangeWidget ==
    /\ app = "plot"
    /\ \E w \in PlotWidgets :
        /\ w # req.widgets
        /\ PlotRun(w, "none", None, NoLookups)

ClickGetPlot ==
    /\ app = "plot"
    /\ \E env \in PlotEnvs : PlotRun(req.widgets, "Get Plot", None, env)

\* The user picks another entry of "Choose the best match".
PickMatch ==
    /\ app = "plot"
    /\ out.matchOptions # <<>>
    /\ \E i \in 1..Len(out.matchOptions) :
        PlotRun(req.widgets, "none", Some(out.matchOptions[i]), NoLookups)

\* The user picks another entry of "Disambiguation options".
PickOption ==
    /\ app = "plot"
    /\ out.disambOptions # <<>>
    /\ \E i \in 1..Len(out.disambOptions) :
        PlotRun(req.widgets, "none", Some(out.disambOptions[i]), NoLookups)

ClickUseSelected ==
    /\ app = "plot"
    /\ out.useSelectedShown
    /\ PlotRun(req.widgets, "Use selected option", out.choice, NoLookups)

ClickClearCache ==
    /\ app = "plot"
    /\ PlotRun(req.widgets, "Clear cache", None, NoLookups)

NextPlot ==
    \/ ChangeWidget
    \/ ClickGetPlot
    \/ PickMatch
    \/ PickOption
    \/ ClickUseSelected
    \/ ClickClearCache

SpecPlot == InitPlot /\ [][NextPlot]_vars

(***************************************************************************)
(* movie_reviews_app.py: find_wiki_page and safe_get_summary               *)
(***************************************************************************)
\* "return hits[0], hits[:6]"
MaxHitsListed == 6

\* find_wiki_page taking the typed name as the title when the search has
\* no hit: a variant that the flow-order property must tell apart.
find_wiki_pageTypedName(query, env) ==
    IF query = <<>> \/ Strip(query) = <<>>
    THEN [raised |-> "none", chosen |-> None, hits |-> <<>>]
    ELSE IF env.search.raises
    THEN [raised |-> "WikipediaException", chosen |-> None, hits |-> <<>>]
    ELSE IF env.search.hits = <<>>
    THEN [raised |-> "none", chosen |-> Some(Strip(query)), hits |-> <<>>]
    ELSE [raised |-> "none", chosen |-> Some(env.search.hits[1]),
          hits |-> FirstN(env.search.hits, MaxHitsListed)]

\* raised is the exception that leaves the function: wikipedia.search is
\* called outside any try.
find_wiki_page(query, env) ==
    IF query = <<>> \/ Strip(query) = <<>>
    THEN [raised |-> "none", chosen |-> None, hits |-> <<>>]
    ELSE IF env.search.raises
    THEN [raised |-> "WikipediaException", chosen |-> None, hits |-> <<>>]
    ELSE IF env.search.hits = <<>>
    THEN [raised |-> "none", chosen |-> None, hits |-> <<>>]
    ELSE [raised |-> "none", chosen |-> Some(env.search.hits[1]),
          hits |-> FirstN(env.search.hits, MaxHitsListed)]

\* "wikipedia.summary(title, sentences=3)"
ReviewSentences == 3

safe_get_summary(title, env) ==
    CASE env.summary = "ambiguous" ->
            [raised |-> "DisambiguationError", options |-> DisambiguationOptions,
             val |-> None]
      [] env.summary = "error" -> [raised |-> "none", options |-> <<>>, val |-> None]
      [] OTHER -> [raised |-> "none", options |-> <<>>,
                   val |-> Some(SummaryOf(env, ReviewSentences))]

(***************************************************************************)
(* movie_reviews_app.py: the script                                        *)
(***************************************************************************)
ReviewsBlank ==
    [screen |-> <<>>, steps |-> <<>>, hits |-> <<>>, chosen |-> None,
     context |-> None, reviews |-> <<>>, disambOptions |-> <<>>,
     escaped |-> "none"]

\* e.options[:12]
MaxSuggestionsShown == 12

\* What the generator returns for a prompt.
GeneratedText == <<" ", "O", "k", "\n", "!", " ">>

\* out[0].get("generated_text", "").replace("\n", " ").strip()
ReviewText(generated) ==
    Strip([i \in 1..Len(generated) |-> IF generated[i] = "\n" THEN " " ELSE generated[i]])

\* Lines 81-114: the context is shown, the model is loaded and called.
ShowContext(o, context, w, env) ==
    LET shown == [o EXCEPT !.screen = @ \o <<"context">>,
                           !.steps = @ \o <<"display">>,
                           !.context = Some(context)]
    IN  CASE env.gen = "load_fails" ->
                [shown EXCEPT !.screen = @ \o <<"info: loading model", "error: failed to load model">>]
          [] env.gen = "call_fails" ->
                [shown EXCEPT !.screen = @ \o <<"info: loading model">>,
                              !.escaped = "GeneratorError"]
          [] OTHER ->
                [shown EXCEPT !.screen = @ \o <<"info: loading model">>
                                           \o [i \in 1..w.n_reviews |-> "review"]
                                           \o <<"success", "download">>,
                              !.steps = @ \o <<"export">>,
                              !.reviews = [i \in 1..w.n_reviews |-> ReviewText(GeneratedText)]]

\* Lines 48-79.
GenerateHandler(w, env) ==
    LET query == Strip(w.movie_name_raw)
    IN  IF w.use_custom /\ Strip(w.custom_plot) # <<>>
        THEN ShowContext([ReviewsBlank EXCEPT !.screen = <<"info: using your plot">>],
                         Strip(w.custom_plot), w, env)
        ELSE IF query = <<>>
        THEN [ReviewsBlank EXCEPT !.screen = <<"warning: enter a movie name">>]
        ELSE
        LET f == find_wiki_page(query, env)
        IN  IF f.raised # "none"
            THEN [ReviewsBlank EXCEPT !.escaped = f.raised]
            ELSE IF ~Truthy(f.chosen)
            THEN [ReviewsBlank EXCEPT !.screen = <<"error: no pages found">>,
                                      !.steps = <<"search">>]
            ELSE
            LET chosen == f.chosen.val
                found == [ReviewsBlank EXCEPT
                             !.screen = IF Lower(chosen) # Lower(query)
                                        THEN <<"warning: top match", "matches">>
                                        ELSE <<>>,
                             !.steps = <<"search", "select">>,
                             !.hits = f.hits,
                             !.chosen = f.chosen]
                s == safe_get_summary(chosen, env)
            IN  IF s.raised = "DisambiguationError"
                THEN [found EXCEPT !.screen = @ \o <<"warning: ambiguous", "options">>,
                                   !.disambOptions = FirstN(s.options, MaxSuggestionsShown)]
                ELSE IF s.val.isNone
                THEN [found EXCEPT !.screen = @ \o <<"warning: no clean summary">>]
                ELSE ShowContext([found EXCEPT !.steps = @ \o <<"extract">>],
                                 s.val.val, w, env)

\* One run of the script.
ReviewsScript(w, clicked, env) ==
    IF clicked = "Generate reviews" THEN GenerateHandler(w, env) ELSE ReviewsBlank

(***************************************************************************)
(* A session of the reviews app                                            *)
(***************************************************************************)
ReviewsEnvs ==
    [search : SearchResponses, summary : SummaryKinds,
     gen : {"ok", "load_fails", "call_fails"}]

CustomPlot == <<" ", "A", " ", "p", "l", "o", "t", ".", "\n">>

\* The slider "Number of reviews": its least value and its default.
ReviewCounts == {1, 3}

\* The text area exists only while the checkbox is ticked.
ReviewsWidgets ==
    {w \in [movie_name_raw : {<<>>, <<" ", "U", "p", " ">>, <<"u", "p", "s", "i", "d", "e">>},
            use_custom : BOOLEAN, custom_plot : {<<>>, <<" ", "\n">>, CustomPlot},
            n_reviews : ReviewCounts] :
        ~w.use_custom => w.custom_plot = <<>>}

ReviewsDefaults ==
    [movie_name_raw |-> <<>>, use_custom |-> FALSE, custom_plot |-> <<>>,
     n_reviews |-> 3]

InitReviews ==
    /\ app = "reviews"
    /\ req = Request("none", ReviewsDefaults, None)
    /\ svc = NoLookups
    /\ out = ReviewsBlank
    /\ searchCache = <<>>
    /\ pageCache = {}
    /\ arg = <<>>
    /\ res = NotRun

ReviewsRun(w, clicked, env) ==
    /\ req' = Request(clicked, w, None)
    /\ svc' = env
    /\ out' = ReviewsScript(w, clicked, env)
    /\ UNCHANGED <<app, searchCache, pageCache, arg, res>>

\* The user edits the text input, the checkbox, the text area or the slider.
ChangeReviewsWidget ==
    /\ app = "reviews"
    /\ \E w \in ReviewsWidgets :
        /\ w # req.widgets
        /\ ReviewsRun(w, "none", NoLookups)

ClickGenerate ==
    /\ app = "reviews"
    /\ \E env \in ReviewsEnvs : ReviewsRun(req.widgets, "Generate reviews", env)

NextReviews == ChangeReviewsWidget \/ ClickGenerate

SpecReviews == InitReviews /\ [][NextReviews]_vars

(***************************************************************************)
(* Both scripts: a session runs one of them.                               *)
(***************************************************************************)
Init == InitPlot \/ InitReviews

Next ==
    \/ ChangeWidget
    \/ ClickGetPlot
    \/ PickMatch
    \/ PickOption
    \/ ClickUseSelected
    \/ ClickClearCache
    \/ ChangeReviewsWidget
    \/ ClickGenerate

Spec == Init /\ [][Next]_vars

(***************************************************************************)
(* Properties                                                              *)
(***************************************************************************)
OnScreen(o, tag) == \E i \in 1..Len(o.screen) : o.screen[i] = tag

Did(o, step) == \E i \in 1..Len(o.steps) : o.steps[i] = step

PlotMessages ==
    {"warning: enter a movie name", "error: search error", "error: no results",
     "warning: ambiguous", "error: failed to fetch page",
     "error: could not fetch a summary/plot"}

PlotMessageShown == \E m \in PlotMessages : OnScreen(out, m)

PlotShown == OnScreen(out, "plot") /\ Truthy(out.plot_text)

GetPlotClicked == app = "plot" /\ req.button = "Get Plot"

\* C1, as stated: every 'Get Plot' click ends with the plot or a message
\* on the screen, and no exception leaves try_summary_or_fallback or the
\* handler.
C1_NoExceptionLeavesAnyFunction ==
    GetPlotClicked =>
        /\ out.escaped = "none"
        /\ out.tsf_raised = "none"
        /\ (PlotShown \/ PlotMessageShown)

\* C1, amended: every 'Get Plot' click ends with the plot or a message on
\* the screen and no exception leaves the handler; the one exception that
\* leaves try_summary_or_fallback is the DisambiguationError of an ambiguous
\* summary lookup, which the handler turns into the ambiguity warning.
C1_GetPlotEndsWithPlotOrMessage ==
    GetPlotClicked =>
        /\ out.escaped = "none"
        /\ out.tsf_raised \in {"none", "DisambiguationError"}
        /\ (out.tsf_raised = "DisambiguationError" =>
                svc.summary = "ambiguous" /\ OnScreen(out, "warning: ambiguous"))
        /\ (PlotShown \/ PlotMessageShown)

\* C1, witness: the search had hits, the page fetch and the summary both
\* raised, and the click ended with the error message.
C1_Witness ==
    /\ GetPlotClicked
    /\ out.hits # <<>>
    /\ svc.page = "raise"
    /\ svc.summary = "error"
    /\ out.escaped = "none"
    /\ OnScreen(out, "error: could not fetch a summary/plot")

ReviewsMessages ==
    {"warning: enter a movie name", "error: no pages found",
     "warning: ambiguous", "warning: no clean summary",
     "error: failed to load model"}

GenerateClicked == app = "reviews" /\ req.button = "Generate reviews"

\* C2: every 'Generate reviews' click ends with a context displayed or a
\* warning/error shown, and no exception of a lookup leaves the handler.
C2_NoLookupExceptionLeavesHandler ==
    GenerateClicked =>
        /\ out.escaped # "WikipediaException"
        /\ \/ OnScreen(out, "context")
           \/ \E m \in ReviewsMessages : OnScreen(out, m)

\* The headings of C3, in the order the claim gives them.
HeadingOrder ==
    << <<"P", "l", "o", "t">>,
       <<"P", "l", "o", "t", " ", "s", "u", "m", "m", "a", "r", "y">>,
       <<"S", "y", "n", "o", "p", "s", "i", "s">>,
       <<"S", "y", "n", "o", "p", "s", "i", "s", " ", "a", "n", "d", " ", "p", "l", "o", "t">>,
       <<"P", "l", "o", "t", " ", "a", "n", "d", " ", "s", "y", "n", "o", "p", "s", "i", "s">> >>

\* The text found for the i-th heading is longer than 80 characters after
\* stripping.
LongEnough(page, i) ==
    LET t == get_section_text_by_title(page, HeadingOrder[i])
    IN  ~t.isNone /\ Len(Strip(t.val)) > 80

\* C3: for an existing page the result is the stripped text of the first
\* heading, in the order Plot, Plot summary, Synopsis, Synopsis and plot,
\* Plot and synopsis, whose text is longer than 80 characters after
\* stripping; a later heading is used only when every earlier one is absent
\* or too short.
C3_FirstLongEnoughHeadingWins ==
    (res.done /\ arg.exists) =>
        \A i \in 1..Len(HeadingOrder) :
            (LongEnough(arg, i) /\ \A j \in 1..(i - 1) : ~LongEnough(arg, j)) =>
                res.val = Some(Strip(get_section_text_by_title(arg, HeadingOrder[i]).val))

\* C3, witness: "Plot" is present but too short, "Plot summary" is absent,
\* and the text of "Synopsis" was returned.
C3_Witness ==
    /\ res.done
    /\ arg.exists
    /\ Truthy(get_section_text_by_title(arg, HeadingOrder[1]))
    /\ ~LongEnough(arg, 1)
    /\ get_section_text_by_title(arg, HeadingOrder[2]).isNone
    /\ LongEnough(arg, 3)
    /\ res.val = Some(Strip(get_section_text_by_title(arg, HeadingOrder[3]).val))

RECURSIVE AnySectionNamed(_, _)
\* Some section of the tree subs carries the heading, ignoring case and
\* surrounding whitespace.
AnySectionNamed(subs, heading) ==
    /\ subs # <<>>
    /\ \/ Lower(Strip(Head(subs).title)) = Lower(Strip(heading))
       \/ AnySectionNamed(Head(subs).sections, heading)
       \/ AnySectionNamed(Tail(subs), heading)

\* The first block between blank lines that is not blank, stripped.
FirstNonBlankBlock(txt) ==
    LET blocks == SplitBlankLines(txt)
        at == {i \in 1..Len(blocks) : Strip(blocks[i]) # <<>>}
    IN  IF at = {} THEN None ELSE Some(Strip(blocks[First(at)]))

\* C4: when no candidate heading matches a section of an existing page the
\* result is the first non-blank paragraph of the page text, None when
\* there is none; the result is None for a missing page.
C4_FallsBackToFirstParagraph ==
    res.done =>
        /\ ~arg.exists => res.val = None
        /\ (/\ arg.exists
            /\ \A i \in 1..Len(HeadingOrder) : ~AnySectionNamed(arg.sections, HeadingOrder[i]))
           => res.val = FirstNonBlankBlock(arg.text)

\* C5: after a click on 'Use selected option' the plot of the picked option
\* is fetched and displayed (or the failure to fetch it reported) with the
\* picked option as the chosen title.
C5_UseSelectedShowsPickedOption ==
    (app = "plot" /\ req.button = "Use selected option") =>
        /\ out.chosen_title = req.choice
        /\ (PlotShown \/ PlotMessageShown)

\* C6: the outcome of a 'Get Plot' click is the outcome of the same click,
\* with the same widgets and the same answers of the service, in a session
\* with no earlier click.
C6_ClickIsStateless ==
    GetPlotClicked =>
        out = PlotScript(req.widgets, "Get Plot",
                         [k \in PlotCacheKeys |-> NotCached], {}, svc).out

\* A source of try_summary_or_fallback has text for the title: the
\* structured plot (when preferred), the short summary, the extraction of
\* the last resort.
StructuredPlotHasText ==
    /\ req.widgets.prefer_full_plot
    /\ svc.page \in {"long", "short"}
    /\ LET t == extract_plot_from_api_page(PageOf(svc.page, out.chosen_title.val))
       IN  Truthy(t) /\ Len(t.val) > 120

SummaryHasText == svc.summary = "text"

LastResortHasText ==
    /\ svc.page \in {"long", "short"}
    /\ Truthy(extract_plot_from_api_page(PageOf(svc.page, out.chosen_title.val)))

\* C7: for a title whose summary lookup is not ambiguous, the error 'Could
\* not fetch a summary/plot' is shown, and no plot and no download button,
\* only when no source had text for the title.
C7_ErrorOnlyWhenNoSourceHasText ==
    (/\ GetPlotClicked
     /\ Did(out, "select")
     /\ svc.summary # "ambiguous"
     /\ OnScreen(out, "error: could not fetch a summary/plot"))
    => ~(StructuredPlotHasText \/ SummaryHasText \/ LastResortHasText)

InSeq(seq, x) == \E i \in 1..Len(seq) : seq[i] = x

\* The run searched, selected a title among the hits and extracted text
\* before it displayed.
SearchedSelectedExtracted(o, chosen) ==
    /\ Len(o.steps) >= 4
    /\ SubSeq(o.steps, 1, 4) = <<"search", "select", "extract", "display">>
    /\ o.hits # <<>>
    /\ ~chosen.isNone
    /\ InSeq(o.hits, chosen.val)

\* C8, as stated: in both scripts a run of the main button displays or
\* exports text only after search, selection among the hits and
\* extraction, in that order.
C8_DisplayOnlyAfterSearch ==
    /\ (GetPlotClicked /\ (Did(out, "display") \/ Did(out, "export")))
            => SearchedSelectedExtracted(out, out.chosen_title)
    /\ (GenerateClicked /\ (Did(out, "display") \/ Did(out, "export")))
            => SearchedSelectedExtracted(out, out.chosen)

\* The reviews run took the text the user pasted as its context.
CustomPlotUsed ==
    /\ req.widgets.use_custom
    /\ Strip(req.widgets.custom_plot) # <<>>
    /\ out.context = Some(Strip(req.widgets.custom_plot))
    /\ out.steps[1] = "display"
    /\ out.hits = <<>>

\* C8, amended: the plot app displays or exports text only after search,
\* selection among the hits and extraction, in that order; so does the
\* reviews app, except when the user ticked the custom-plot box and pasted
\* a non-blank plot: then that text is displayed with no search at all.
C8_DisplayOnlyAfterSearchOrCustomPlot ==
    /\ (GetPlotClicked /\ (Did(out, "display") \/ Did(out, "export")))
            => SearchedSelectedExtracted(out, out.chosen_title)
    /\ (GenerateClicked /\ (Did(out, "display") \/ Did(out, "export")))
            => (CustomPlotUsed \/ SearchedSelectedExtracted(out, out.chosen))

\* C8, witness: a reviews run that displayed the summary of the first hit
\* and offered the reviews for download.
C8_Witness ==
    /\ GenerateClicked
    /\ ~req.widgets.use_custom
    /\ out.steps = <<"search", "select", "extract", "display", "export">>
    /\ out.chosen = Some(out.hits[1])

\* h contains "film" in lower case, or four digits in parentheses.
FilmLike(h) ==
    \/ \E i \in 1..(Len(h) - 3) : Lower(SubSeq(h, i, i + 3)) = <<"f", "i", "l", "m">>
    \/ \E i \in 1..(Len(h) - 5) :
         /\ h[i] = "(" /\ h[i + 5] = ")"
         /\ \A k \in (i + 1)..(i + 4) : h[k] \in Digits

\* C9: the title handed to try_summary_or_fallback is the first hit equal
\* to the cleaned query ignoring case when there is one, otherwise the
\* first hit that contains "film" or a four-digit number in parentheses,
\* otherwise the first hit; it is always one of the hits.
C9_DefaultMatch ==
    res.done =>
        LET hits  == arg.hits
            exact == {i \in 1..Len(hits) : Lower(hits[i]) = Lower(arg.q)}
            film  == {i \in 1..Len(hits) : FilmLike(hits[i])}
            title == res.val.val
        IN  /\ InSeq(hits, title)
            /\ exact # {} => title = hits[First(exact)]
            /\ (exact = {} /\ film # {}) => title = hits[First(film)]
            /\ (exact = {} /\ film = {}) => title = hits[1]

\* C9, witness: no hit equals the query, the second hit is the first that
\* looks like a film, and it was chosen.
C9_Witness ==
    /\ res.done
    /\ Len(arg.hits) >= 2
    /\ \A i \in 1..Len(arg.hits) : Lower(arg.hits[i]) # Lower(arg.q)
    /\ ~FilmLike(arg.hits[1])
    /\ FilmLike(arg.hits[2])
    /\ res.val.val = arg.hits[2]

\* C10: cleaning a cleaned query changes nothing; the result has no
\* whitespace at either end and no punctuation . , ; : ! ? at its end; and
\* it is empty exactly when the query is made of whitespace and that
\* punctuation only.
C10_CleanQueryNormalises ==
    res.done =>
        LET c == res.val.val
        IN  /\ clean_query(c) = c
            /\ c # <<>> => (c[1] \notin WhiteSpace /\ c[Len(c)] \notin WhiteSpace)
            /\ c # <<>> => c[Len(c)] \notin {".", ",", ";", ":", "!", "?"}
            /\ (c = <<>>) <=>
                   (\A i \in 1..Len(arg) :
                        arg[i] \in WhiteSpace \cup {".", ",", ";", ":", "!", "?"})

====
